---- MODULE Spec2Model ----
(***************************************************************************)
(* Model of openquake/calculators/postproc/compute_mrd.py: the map/reduce  *)
(* computation of the mean rate distribution (MRD).  main() partitions the *)
(* contexts of every group into slices, submits one Input per slice to a   *)
(* parallel.Starmap, reduces the partial dictionaries {g: array} into one  *)
(* accumulator and combines it with the realization weights.               *)
(*                                                                         *)
(* Arrays are records [shape, data]: shape is a triple (L1, L1, N) and     *)
(* data maps every index triple to a number.  Weights and rates are        *)
(* integers (fixed-point), so sums are exact.                              *)
(*                                                                         *)
(* The module also models openquake/engine/celery_node_monitor.py: the     *)
(* signal handlers of MasterKilled and the CeleryNodeMonitor context       *)
(* manager with its monitor thread (specification SpecMonitor, and        *)
(* SpecMonitorFair where the monitor thread is scheduled fairly).          *)
(***************************************************************************)
EXTENDS Integers, Sequences, FiniteSets, TLC

VARIABLES
    dstore,      \* the datastore: inputs read by main() and the 'mrd' dataset
    pc,          \* position of main() (line of compute_mrd.py) or of the caller
    L1,          \* main(): number of intensity levels minus one
    n,           \* main(): total number of contexts
    blocksize,   \* main(): block size used by gen_slices
    log,         \* records emitted through logging
    smap,        \* the Starmap: FALSE until created, then the submitted Inputs
    gi,          \* main(): position of the loop over ctx_by_grp.items()
    slcs,        \* main(): slices still to be yielded by the current gen_slices
    task,        \* executor: state and result of every submitted unit
    acc,         \* accumulator of smap.reduce(): ordered dict as <<g, array>> pairs
    out,         \* what the last call of combine_mrds returned or raised
    err,         \* exception that ended main(), "" if none
    monitor,     \* the CeleryNodeMonitor object (self)
    master,      \* the master process: signal handlers, main thread, logs
    thread,      \* the frame of the monitor thread running check_nodes
    celery       \* the celery cluster: the inspect calls it has received

\* the state of the calculation and the state of the node monitor
mrdvars == <<dstore, pc, L1, n, blocksize, log, smap, gi, slcs, task, acc, out, err>>
monvars == <<monitor, master, thread, celery>>

vars == <<mrdvars, monvars>>

----------------------------------------------------------------------------
(* Bounds of the model *)

MaxGroups == 2      \* number of context groups is 0..MaxGroups
MaxRecs == 3        \* contexts per group is 0..MaxRecs
MaxTasks == 2       \* oq.concurrent_tasks is -1..MaxTasks
MaxWeight == 2      \* realization weights are 1..MaxWeight (fixed-point units)
MaxRecsMany == 1    \* contexts of the group of a run with many levels
MaxNodes == 2       \* celery nodes are 1..MaxNodes
MaxPolls == 1       \* pings sent by the monitor threads of the process
MaxMonitors == 2    \* CeleryNodeMonitor objects constructed in the process

(* Program constants *)

MaxSites == 10      \* assert N <= 10
ManyLevels == 24    \* if L1 > 24: logging.warning
Checks == 10        \* job_is_running: for _ in range(10)

----------------------------------------------------------------------------
(* numpy arrays of three dimensions *)

Indices(shape) == (1..shape[1]) \X (1..shape[2]) \X (1..shape[3])

\* an array of ones
Ones(shape) == [shape |-> shape, data |-> [i \in Indices(shape) |-> 1]]

\* numpy.zeros(shape)
Zeros(shape) == [shape |-> shape, data |-> [i \in Indices(shape) |-> 0]]

\* numpy broadcasting of an array to a shape: an axis of length 1 is repeated
Broadcastable(shape, to) ==
    \A k \in 1..3 : shape[k] = to[k] \/ shape[k] = 1

BroadcastIdx(shape, i) ==
    [k \in 1..3 |-> IF shape[k] = 1 THEN 1 ELSE i[k]]

\* the shape two operands of a binary numpy operation broadcast to
BroadcastShape(s, t) ==
    [k \in 1..3 |-> IF s[k] = 1 THEN t[k] ELSE s[k]]

\* w * value for a scalar w
ArrScale(w, a) == [shape |-> a.shape, data |-> [i \in Indices(a.shape) |-> w * a.data[i]]]

\* a + b (operator.add on numpy arrays of compatible shapes)
ArrAdd(a, b) ==
    LET s == BroadcastShape(a.shape, b.shape)
    IN  [shape |-> s,
         data |-> [i \in Indices(s) |->
                     a.data[BroadcastIdx(a.shape, i)] + b.data[BroadcastIdx(b.shape, i)]]]

\* a += b (in place: the shape of a is kept); the caller checks Broadcastable
ArrIAdd(a, b) ==
    [shape |-> a.shape,
     data |-> [i \in Indices(a.shape) |-> a.data[i] + b.data[BroadcastIdx(b.shape, i)]]]

----------------------------------------------------------------------------
(* Ordered dictionaries {g: array}: sequences of <<g, array>> pairs with    *)
(* distinct keys, in insertion order                                        *)

Keys(d) == {d[k][1] : k \in 1..Len(d)}

KeyPos(d, g) == CHOOSE k \in 1..Len(d) : d[k][1] = g

RECURSIVE SumSeq(_)
SumSeq(s) == IF s = <<>> THEN 0 ELSE Head(s) + SumSeq(Tail(s))

Min(a, b) == IF a <= b THEN a ELSE b

\* a ceiling that is one too large on exact quotients
CeilOff(a, b) == a \div b + 1

\* the block size rounded down
FloorDiv(a, b) == a \div b

\* numpy.ceil(a / b) for a >= 0 and b # 0 (true division, then ceiling)
Ceil(a, b) == IF b > 0 THEN (a + b - 1) \div b ELSE -(a \div (-b))

----------------------------------------------------------------------------
(* Partitioner *)

\* general.gen_slices as a loop that yields before it tests: one empty slice
\* for an empty range
RECURSIVE gen_slices_yield_first(_, _, _)
gen_slices_yield_first(start, stop, bs) ==
    <<(<<start, Min(start + bs, stop)>>)>>
        \o (IF start + bs >= stop \/ bs < 1 THEN <<>>
            ELSE gen_slices_yield_first(start + bs, stop, bs))

\* general.gen_slices(start, stop, blocksize): the slices <<start, stop>> of
\* length at most blocksize covering start..stop-1 in order; none when the
\* range is empty
RECURSIVE gen_slices(_, _, _)
gen_slices(start, stop, bs) ==
    IF start >= stop THEN <<>>
    ELSE <<(<<start, Min(start + bs, stop)>>)>> \o gen_slices(start + bs, stop, bs)

\* general.gen_slices cannot slice a non-empty range with a block size
\* below 1
gen_slices_fails(start, stop, bs) == start < stop /\ bs < 1

\* a slice that loses its last element
SliceShort(ctx, slc) == SubSeq(ctx, slc[1] + 1, slc[2] - 1)

\* ctx[slc] for a Python slice <<a, b>>: the elements of 0-based index a..b-1
Slice(ctx, slc) == SubSeq(ctx, slc[1] + 1, slc[2])

\* Input(ctx, cmaker, N)
Input(ctx, cmaker, N) == [ctx |-> ctx, cmaker |-> cmaker, N |-> N, weight |-> Len(ctx)]

----------------------------------------------------------------------------
(* Unit Computer *)

Levels(imtls) == imtls.size \div imtls.len - 1

\* rate contributed by one context to one element of the matrix of sub-model g
KernelRate(rec, g, i) == 1 + ((rec[1] + rec[2] + g + i[1] + 2 * i[2] + i[3]) % 3)

\* calc_mean_rate_dist(ctx, N, cmaker, ...): the 4D matrix of shape
\* (L1, L1, N, G) as the sequence over the last axis of its 3D slices; the
\* rates of the contexts add up
calc_mean_rate_dist(ctx, N, cmaker) ==
    LET shape == <<Levels(cmaker.imtls), Levels(cmaker.imtls), N>>
    IN  [k \in 1..Len(cmaker.gidx) |->
            [shape |-> shape,
             data |-> [i \in Indices(shape) |->
                         SumSeq([c \in 1..Len(ctx) |-> KernelRate(ctx[c], cmaker.gidx[k], i)])]]]

\* compute_mrd(inp, ...): {g: mrd[:, :, :, i] for i, g in enumerate(gidx)}
compute_mrd(inp) ==
    LET mrd == calc_mean_rate_dist(inp.ctx, inp.N, inp.cmaker)
    IN  [k \in 1..Len(inp.cmaker.gidx) |-> <<inp.cmaker.gidx[k], mrd[k]>>]

----------------------------------------------------------------------------
(* Reduction of the partial results: AccumDict.__add__ *)

\* acc + {g: value}: the values of a key already present are added, a new
\* key is inserted at the end
AccumAddItem(d, g, value) ==
    IF g \in Keys(d)
    THEN [d EXCEPT ![KeyPos(d, g)] = <<g, ArrAdd(d[KeyPos(d, g)][2], value)>>]
    ELSE Append(d, <<g, value>>)

\* a merge that keeps the last value of a key instead of adding
RECURSIVE AccumReplace(_, _)
AccumReplace(d, res) ==
    IF res = <<>> THEN d
    ELSE AccumReplace(IF Head(res)[1] \in Keys(d)
                      THEN [d EXCEPT ![KeyPos(d, Head(res)[1])] = Head(res)]
                      ELSE Append(d, Head(res)),
                      Tail(res))

RECURSIVE AccumAdd(_, _)
AccumAdd(d, res) ==
    IF res = <<>> THEN d
    ELSE AccumAdd(AccumAddItem(d, Head(res)[1], Head(res)[2]), Tail(res))

----------------------------------------------------------------------------
(* Weighted Combiner *)

Returned(value) == [exc |-> "", value |-> value]
Raised(exc) == [exc |-> exc]

\* every realization adds the value once, whatever its weight
RECURSIVE combine_rlzs_unweighted(_, _, _, _)
combine_rlzs_unweighted(o, value, rl, weig) ==
    IF rl = <<>> THEN Returned(o)
    ELSE IF Head(rl) \notin DOMAIN weig THEN Raised("IndexError")
    ELSE IF ~Broadcastable(value.shape, o.shape) THEN Raised("ValueError")
    ELSE combine_rlzs_unweighted(ArrIAdd(o, value), value, Tail(rl), weig)

\* for rlz in rlzs[g]: out += weig[rlz] * value
RECURSIVE combine_rlzs(_, _, _, _)
combine_rlzs(o, value, rl, weig) ==
    IF rl = <<>> THEN Returned(o)
    ELSE IF Head(rl) \notin DOMAIN weig THEN Raised("IndexError")
    ELSE IF ~Broadcastable(value.shape, o.shape) THEN Raised("ValueError")
    ELSE combine_rlzs(ArrIAdd(o, ArrScale(weig[Head(rl)], value)), value, Tail(rl), weig)

\* for g in acc: value = acc[g]; for rlz in rlzs[g]: ...
RECURSIVE combine_keys(_, _, _, _)
combine_keys(o, items, rlzs, weig) ==
    IF items = <<>> THEN Returned(o)
    ELSE IF Head(items)[1] \notin DOMAIN rlzs THEN Raised("IndexError")
    ELSE LET r == combine_rlzs(o, Head(items)[2], rlzs[Head(items)[1]], weig)
         IN  IF r.exc # "" THEN r ELSE combine_keys(r.value, Tail(items), rlzs, weig)

\* an empty accumulator gives an array of zeros
combine_mrds_or_zero(a, rlzs_by_g) ==
    IF a = <<>> THEN Returned(Zeros(<<1, 1, 1>>))
    ELSE combine_keys(Zeros(a[1][2].shape), a, rlzs_by_g.rlzs, rlzs_by_g.weight)

combine_mrds(a, rlzs_by_g) ==
    IF a = <<>> THEN Raised("StopIteration")
    ELSE combine_keys(Zeros(a[1][2].shape), a, rlzs_by_g.rlzs, rlzs_by_g.weight)

----------------------------------------------------------------------------
(* openquake/engine/celery_node_monitor.py: the state of a process that    *)
(* has not constructed a CeleryNodeMonitor                                  *)

Nodes == 1..MaxNodes

Signals == {"SIGTERM", "SIGABRT"}

\* no CeleryNodeMonitor object yet
NoMonitor ==
    [no_distribute |-> FALSE, use_celery |-> FALSE, job_running |-> FALSE,
     live_nodes |-> <<>>, th |-> "None"]

\* the master process at start: registered_handlers = False (line 40), the
\* default signal handlers, no call of signal.signal made (installs counts
\* them per signal), no monitor constructed, nothing logged
MasterStart ==
    [registered_handlers |-> FALSE,
     handlers |-> [s \in Signals |-> "SIG_DFL"],
     installs |-> [s \in Signals |-> 0],
     concurrent_tasks_default |-> 0,
     pc |-> "idle",
     exc |-> "",
     signals |-> <<>>,
     log |-> <<>>,
     monitors |-> 0]

\* the monitor thread before threading.Thread(...).start()
\* (live_nodes, the answer of the last ping, is unbound: <<>>)
NoThread == [pc |-> "unstarted", i |-> 0, live_nodes |-> <<>>]

\* no stats() and no ping() asked of the nodes
NoInspect == [stats |-> 0, pings |-> 0]

MonitorIdle ==
    /\ monitor = NoMonitor
    /\ master = MasterStart
    /\ thread = NoThread
    /\ celery = NoInspect

----------------------------------------------------------------------------
(* Inputs of a run: the content of the datastore of a classical calculation *)

SiteCounts == {1, 2, MaxSites + 1}

\* oq.imtls as [size, len]: two IMTs with k levels each
Imtls(k) == [size |-> 2 * k, len |-> 2]

\* few levels (L1 is 1 or 2), or so many that main() warns (L1 = 25)
FewLevels == {Imtls(2), Imtls(3)}
ManyLevelsImtls == {Imtls(ManyLevels + 2)}

\* the site counts and levels of the runs, as pairs <<N, imtls>>: two sites
\* with L1 = 1 or L1 = 2, no site or too many sites with L1 = 1; with many
\* levels one site or too many
FewLevelsDims ==
    {<<2, Imtls(2)>>, <<2, Imtls(3)>>, <<0, Imtls(2)>>, <<MaxSites + 1, Imtls(2)>>}
ManyLevelsDims == {<<N, imtls>> : N \in SiteCounts \ {2}, imtls \in ManyLevelsImtls}

\* the contexts of group grp_id: records <<grp_id, k>>
Contexts(grp_id, size) == [k \in 1..size |-> <<grp_id, k>>]

\* gidx of the groups, given the number of gsims of each: consecutive ranges
FirstG(ngs, j) == SumSeq(SubSeq(ngs, 1, j - 1))
Gidx(ngs, j) == [k \in 1..ngs[j] |-> FirstG(ngs, j) + k - 1]

\* full enumeration of the logic tree: a realization picks one gsim per
\* group; realization ids are 0..R-1 in mixed radix
RECURSIVE Product(_)
Product(s) == IF s = <<>> THEN 1 ELSE Head(s) * Product(Tail(s))

NumRlzs(ngs) == Product(ngs)

\* index (0-based) of the gsim realization r picks in group j
PickOf(ngs, r, j) == (r \div Product(SubSeq(ngs, j + 1, Len(ngs)))) % ngs[j]

GroupOfG(ngs, g) == CHOOSE j \in 1..Len(ngs) : FirstG(ngs, j) <= g /\ g < FirstG(ngs, j) + ngs[j]

RECURSIVE RlzsUsing(_, _, _)
RlzsUsing(ngs, g, r) ==
    IF r >= NumRlzs(ngs) THEN <<>>
    ELSE (IF PickOf(ngs, r, GroupOfG(ngs, g)) = g - FirstG(ngs, GroupOfG(ngs, g))
          THEN <<r>> ELSE <<>>) \o RlzsUsing(ngs, g, r + 1)

RlzsByG(ngs) ==
    [rlzs |-> [g \in 0..(SumSeq(ngs) - 1) |-> RlzsUsing(ngs, g, 0)],
     weight |-> [r \in 0..(NumRlzs(ngs) - 1) |-> 1 + (r % MaxWeight)]]

\* the groups have one and two gsims in turn, the first has one (alt = 0)
\* or two (alt = 1)
NumGsims(k, alt) == [j \in 1..k |-> 1 + ((j - 1 + alt) % 2)]

Datastore(N, imtls, T, sizes, ngs) ==
    [sitecol |-> N,
     oqparam |-> [imtls |-> imtls, concurrent_tasks |-> T],
     ctx_by_grp |-> [j \in 1..Len(sizes) |->
                       [grp_id |-> j - 1, ctx |-> Contexts(j - 1, sizes[j])]],
     cmakers |-> [j \in 1..Len(sizes) |->
                    [grp_id |-> j - 1, gidx |-> Gidx(ngs, j), imtls |-> imtls]],
     rlzs_by_g |-> RlzsByG(ngs),
     swmr |-> FALSE,
     mrd |-> <<>>]

DatastoresOf(k, dims, maxrecs, alts) ==
    {Datastore(d[1], d[2], T, sizes, NumGsims(k, alt)) :
        d \in dims, T \in {-1} \cup 0..MaxTasks,
        sizes \in [1..k -> 0..maxrecs], alt \in alts}

\* every partition with few levels; with many levels (matrices of 625 N
\* elements) at most one group of at most MaxRecsMany contexts and one gsim
Datastores ==
    UNION ({DatastoresOf(k, FewLevelsDims, MaxRecs, {0, 1}) : k \in 0..MaxGroups}
           \cup {DatastoresOf(k, ManyLevelsDims, MaxRecsMany, {0}) : k \in 0..1})

Init ==
    /\ dstore \in Datastores
    /\ pc = "L71"
    /\ L1 = 0
    /\ n = 0
    /\ blocksize = 0
    /\ log = <<>>
    /\ smap = [created |-> FALSE, inputs |-> <<>>]
    /\ gi = 0
    /\ slcs = <<>>
    /\ task = <<>>
    /\ acc = <<>>
    /\ out = [exc |-> "uncalled"]
    /\ err = ""
    /\ MonitorIdle

----------------------------------------------------------------------------
(* main(dstore, imt1, imt2, cross_correlation, seed, meabins, sigbins) *)

N == dstore.sitecol

Fail(exc) == pc' = "failed" /\ err' = exc

\* lines 71-74: crosscorr, oq, N, L1
ReadParams ==
    /\ pc = "L71"
    /\ L1' = Levels(dstore.oqparam.imtls)
    /\ pc' = "L75"
    /\ UNCHANGED <<dstore, n, blocksize, log, smap, gi, slcs, task, acc, out, err, monvars>>

\* the warning about the number of levels is raised as an error
WarnLevelsFatal ==
    /\ pc = "L75"
    /\ IF L1 > ManyLevels THEN Fail("UserWarning") ELSE pc' = "L78" /\ err' = err
    /\ UNCHANGED <<dstore, L1, n, blocksize, log, smap, gi, slcs, task, acc, out, monvars>>

\* lines 75-77: if L1 > 24: logging.warning(...)
WarnLevels ==
    /\ pc = "L75"
    /\ log' = IF L1 > ManyLevels THEN Append(log, "warning") ELSE log
    /\ pc' = "L78"
    /\ UNCHANGED <<dstore, L1, n, blocksize, smap, gi, slcs, task, acc, out, err, monvars>>

\* the assertion on the number of sites is not made
AssertSitesSkipped ==
    /\ pc = "L78"
    /\ pc' = "L79"
    /\ UNCHANGED <<dstore, L1, n, blocksize, log, smap, gi, slcs, task, acc, out, err, monvars>>

\* line 78: assert N <= 10
AssertSites ==
    /\ pc = "L78"
    /\ IF N <= MaxSites THEN pc' = "L79" /\ err' = err ELSE Fail("AssertionError")
    /\ UNCHANGED <<dstore, L1, n, blocksize, log, smap, gi, slcs, task, acc, out, monvars>>

\* only the contexts of the first group are counted
ReadContextsFirstGroup ==
    /\ pc = "L79"
    /\ n' = IF dstore.ctx_by_grp = <<>> THEN 0 ELSE Len(dstore.ctx_by_grp[1].ctx)
    /\ log' = Append(log, "info")
    /\ pc' = "L83"
    /\ UNCHANGED <<dstore, L1, blocksize, smap, gi, slcs, task, acc, out, err, monvars>>

\* lines 79-82: read the cmakers and the contexts, count and log them
ReadContexts ==
    /\ pc = "L79"
    /\ n' = SumSeq([j \in 1..Len(dstore.ctx_by_grp) |-> Len(dstore.ctx_by_grp[j].ctx)])
    /\ log' = Append(log, "info")
    /\ pc' = "L83"
    /\ UNCHANGED <<dstore, L1, blocksize, smap, gi, slcs, task, acc, out, err, monvars>>

\* line 83: blocksize = numpy.ceil(n / oq.concurrent_tasks)
ComputeBlocksize ==
    /\ pc = "L83"
    /\ IF dstore.oqparam.concurrent_tasks = 0
       THEN Fail("ZeroDivisionError") /\ blocksize' = blocksize
       ELSE /\ blocksize' = Ceil(n, dstore.oqparam.concurrent_tasks)
            /\ pc' = "L84"
            /\ err' = err
    /\ UNCHANGED <<dstore, L1, n, log, smap, gi, slcs, task, acc, out, monvars>>

\* lines 84-85: dstore.swmr_on(); smap = parallel.Starmap(compute_mrd, h5=dstore)
StartStarmap ==
    /\ pc = "L84"
    /\ dstore' = [dstore EXCEPT !.swmr = TRUE]
    /\ smap' = [created |-> TRUE, inputs |-> <<>>]
    /\ pc' = "L86"
    /\ UNCHANGED <<L1, n, blocksize, log, gi, slcs, task, acc, out, err, monvars>>

\* lines 86-88: the next group of ctx_by_grp.items(), its cmaker and its slices
NextGroup ==
    /\ pc = "L86"
    /\ slcs = <<>>
    /\ gi < Len(dstore.ctx_by_grp)
    /\ IF gen_slices_fails(0, Len(dstore.ctx_by_grp[gi + 1].ctx), blocksize)
       THEN Fail("ConfigurationError") /\ UNCHANGED <<gi, slcs>>
       ELSE /\ gi' = gi + 1
            /\ slcs' = gen_slices(0, Len(dstore.ctx_by_grp[gi + 1].ctx), blocksize)
            /\ UNCHANGED <<pc, err>>
    /\ UNCHANGED <<dstore, L1, n, blocksize, log, smap, task, acc, out, monvars>>

\* every unit is bound to the cmaker of the first group
SubmitUnitFirstCmaker ==
    /\ pc = "L86"
    /\ slcs # <<>>
    /\ LET grp == dstore.ctx_by_grp[gi]
           inp == Input(Slice(grp.ctx, Head(slcs)), dstore.cmakers[1], N)
       IN  /\ smap' = [smap EXCEPT !.inputs = Append(@, inp)]
           /\ task' = Append(task, [state |-> "submitted", result |-> <<>>])
    /\ slcs' = Tail(slcs)
    /\ UNCHANGED <<dstore, pc, L1, n, blocksize, log, gi, acc, out, err, monvars>>

\* lines 89-90: smap.submit((Input(ctx[slc], cmaker, N), ...))
SubmitUnit ==
    /\ pc = "L86"
    /\ slcs # <<>>
    /\ LET grp == dstore.ctx_by_grp[gi]
           inp == Input(Slice(grp.ctx, Head(slcs)), dstore.cmakers[grp.grp_id + 1], N)
       IN  /\ smap' = [smap EXCEPT !.inputs = Append(@, inp)]
           /\ task' = Append(task, [state |-> "submitted", result |-> <<>>])
    /\ slcs' = Tail(slcs)
    /\ UNCHANGED <<dstore, pc, L1, n, blocksize, log, gi, acc, out, err, monvars>>

\* the loop of line 86 is exhausted: main() goes on to smap.reduce()
SubmitDone ==
    /\ pc = "L86"
    /\ slcs = <<>>
    /\ gi = Len(dstore.ctx_by_grp)
    /\ pc' = "L91"
    /\ UNCHANGED <<dstore, L1, n, blocksize, log, smap, gi, slcs, task, acc, out, err, monvars>>

----------------------------------------------------------------------------
(* The executor behind parallel.Starmap: every submitted unit is computed   *)
(* once, by a worker, at any time after its submission                      *)

\* a worker runs compute_mrd on unit u and sends the result back
WorkerReturns(u) ==
    /\ task[u].state = "submitted"
    /\ task' = [task EXCEPT ![u] = [state |-> "done", result |-> compute_mrd(smap.inputs[u])]]

\* the task of unit u raises, or its worker is lost
WorkerFails(u) ==
    /\ task[u].state = "submitted"
    /\ task' = [task EXCEPT ![u] = [state |-> "failed", result |-> <<>>]]

Worker ==
    /\ pc \in {"L86", "L91"}
    /\ \E u \in 1..Len(task) : WorkerReturns(u) \/ WorkerFails(u)
    /\ UNCHANGED <<dstore, pc, L1, n, blocksize, log, smap, gi, slcs, acc, out, err, monvars>>

\* line 91, acc = smap.reduce(): one result is received and added to acc
ReduceResult ==
    /\ pc = "L91"
    /\ \E u \in 1..Len(task) :
          /\ task[u].state = "done"
          /\ acc' = AccumAdd(acc, task[u].result)
          /\ task' = [task EXCEPT ![u] = [state |-> "collected", result |-> <<>>]]
    /\ UNCHANGED <<dstore, pc, L1, n, blocksize, log, smap, gi, slcs, out, err, monvars>>

\* the unit whose task failed is submitted again
ReduceRetries ==
    /\ pc = "L91"
    /\ \E u \in 1..Len(task) :
          /\ task[u].state = "failed"
          /\ task' = [task EXCEPT ![u] = [state |-> "submitted", result |-> <<>>]]
    /\ UNCHANGED <<dstore, pc, L1, n, blocksize, log, smap, gi, slcs, acc, out, err, monvars>>

\* line 91: the result received is an exception, which is raised in main()
ReduceRaises ==
    /\ pc = "L91"
    /\ \E u \in 1..Len(task) : task[u].state = "failed"
    /\ Fail("WorkerFailure")
    /\ UNCHANGED <<dstore, L1, n, blocksize, log, smap, gi, slcs, task, acc, out, monvars>>

\* reduce() returns although the task of some unit failed
ReduceDoneDespiteFailure ==
    /\ pc = "L91"
    /\ \A u \in 1..Len(task) : task[u].state \in {"collected", "failed"}
    /\ pc' = "L92"
    /\ UNCHANGED <<dstore, L1, n, blocksize, log, smap, gi, slcs, task, acc, out, err, monvars>>

\* reduce() returns without waiting for the results
ReduceDoneEarly ==
    /\ pc = "L91"
    /\ pc' = "L92"
    /\ UNCHANGED <<dstore, L1, n, blocksize, log, smap, gi, slcs, task, acc, out, err, monvars>>

\* line 91: every result was received, reduce() returns acc
ReduceDone ==
    /\ pc = "L91"
    /\ \A u \in 1..Len(task) : task[u].state = "collected"
    /\ pc' = "L92"
    /\ UNCHANGED <<dstore, L1, n, blocksize, log, smap, gi, slcs, task, acc, out, err, monvars>>

\* the dataset is sized with the number of levels, L1 + 1
CreateDsetLevels ==
    /\ pc = "L92"
    /\ dstore' = [dstore EXCEPT !.mrd = <<Zeros(<<L1 + 1, L1 + 1, N>>)>>]
    /\ pc' = "L93"
    /\ UNCHANGED <<L1, n, blocksize, log, smap, gi, slcs, task, acc, out, err, monvars>>

\* line 92: mrd = dstore.create_dset('mrd', float, (L1, L1, N))
CreateDset ==
    /\ pc = "L92"
    /\ dstore' = [dstore EXCEPT !.mrd = <<Zeros(<<L1, L1, N>>)>>]
    /\ pc' = "L93"
    /\ UNCHANGED <<L1, n, blocksize, log, smap, gi, slcs, task, acc, out, err, monvars>>

\* mrd[:] = value: the value is broadcast to the shape of the dataset
SetAll(dset, value) ==
    [shape |-> dset.shape,
     data |-> [i \in Indices(dset.shape) |-> value.data[BroadcastIdx(value.shape, i)]]]

\* line 93: mrd[:] = combine_mrds(acc, dstore['rlzs_by_g'][:])
CombineAndStore ==
    /\ pc = "L93"
    /\ out' = combine_mrds(acc, dstore.rlzs_by_g)
    /\ IF out'.exc # "" THEN Fail(out'.exc) /\ dstore' = dstore
       ELSE IF ~Broadcastable(out'.value.shape, dstore.mrd[1].shape)
       THEN Fail("ValueError") /\ dstore' = dstore
       ELSE /\ dstore' = [dstore EXCEPT !.mrd = <<SetAll(dstore.mrd[1], out'.value)>>]
            /\ pc' = "done"
            /\ err' = err
    /\ UNCHANGED <<L1, n, blocksize, log, smap, gi, slcs, task, acc, monvars>>

Next ==
    \/ ReadParams
    \/ WarnLevels
    \/ AssertSites
    \/ ReadContexts
    \/ ComputeBlocksize
    \/ StartStarmap
    \/ NextGroup
    \/ SubmitUnit
    \/ SubmitDone
    \/ Worker
    \/ ReduceResult
    \/ ReduceRaises
    \/ ReduceDone
    \/ CreateDset
    \/ CombineAndStore

Spec == Init /\ [][Next]_vars

----------------------------------------------------------------------------
(* combine_mrds on its own: the caller passes any accumulator (the partial  *)
(* results of stub units, possibly not those the bindings declare) and any  *)
(* weight table                                                             *)

MaxVal == 1         \* the array a stub returns for g is a ramp times g + 1..g + MaxVal
MaxScale == 2       \* constants 0..MaxScale multiply the weights

StubShapes == {<<1, 1, 1>>, <<2, 2, 1>>, <<1, 1, 2>>}

\* an array whose elements differ from one another
Ramp(shape, v) == [shape |-> shape, data |-> [i \in Indices(shape) |-> v * (i[1] + i[2] + i[3] - 2)]]

\* sub-model indices a stub may return
StubKeys == 0..2

StubItems == {<<g, Ramp(shape, g + v)>> : g \in StubKeys, shape \in StubShapes, v \in 1..MaxVal}

StubAccs ==
    {<<>>}
    \cup {<<x>> : x \in StubItems}
    \cup {<<p[1], p[2]>> : p \in {q \in StubItems \X StubItems : q[1][1] # q[2][1]}}

\* weight tables of two realizations over the sub-models 0..G-1, G in 2..3
StubTables ==
    UNION {[rlzs : [0..(G - 1) -> {<<0>>, <<1>>, <<0, 1>>}], weight : [0..1 -> 0..MaxWeight]] : G \in 2..3}

\* gidx of the binding of the unit the accumulator comes from
StubGidx == {<<0>>, <<0, 1>>}

InitCombine ==
    /\ \E tbl \in StubTables :
          dstore = [Datastore(1, Imtls(2), 1, <<>>, <<>>) EXCEPT !.rlzs_by_g = tbl]
    /\ pc = "call"
    /\ L1 = 0
    /\ n = 0
    /\ blocksize = 0
    /\ log = <<>>
    /\ \E gidx \in StubGidx :
          smap = [created |-> TRUE,
                  inputs |-> <<Input(<<>>, [grp_id |-> 0, gidx |-> gidx, imtls |-> Imtls(2)], 1)>>]
    /\ gi = 0
    /\ slcs = <<>>
    /\ task = <<[state |-> "collected", result |-> <<>>]>>
    /\ acc \in StubAccs
    /\ out = [exc |-> "uncalled"]
    /\ err = ""
    /\ MonitorIdle

\* out = combine_mrds(acc, rlzs_by_g), or the exception it raises
CallCombine ==
    /\ pc = "call"
    /\ out' = combine_mrds(acc, dstore.rlzs_by_g)
    /\ pc' = "returned"
    /\ UNCHANGED <<dstore, L1, n, blocksize, log, smap, gi, slcs, task, acc, err, monvars>>

NextCombine == CallCombine

SpecCombine == InitCombine /\ [][NextCombine]_vars

----------------------------------------------------------------------------
(* Properties of the partitioning *)

RECURSIVE Concat(_)
Concat(ss) == IF ss = <<>> THEN <<>> ELSE Head(ss) \o Concat(Tail(ss))

RECURSIVE SelectUnits(_, _)
\* the submitted Inputs bound to group grp_id, in submission order
SelectUnits(inputs, grp_id) ==
    IF inputs = <<>> THEN <<>>
    ELSE (IF Head(inputs).cmaker.grp_id = grp_id THEN <<Head(inputs)>> ELSE <<>>)
         \o SelectUnits(Tail(inputs), grp_id)

UnitCtxs(units) == [k \in 1..Len(units) |-> units[k].ctx]

IsPrefix(s, t) == Len(s) <= Len(t) /\ SubSeq(t, 1, Len(s)) = s

\* the loop of main() has submitted every slice of the j-th group
GroupSubmitted(j) ==
    /\ pc \in {"L86", "L91", "L92", "L93", "done"} \/ (pc = "failed" /\ smap.created)
    /\ gi > j \/ (gi = j /\ slcs = <<>>)

\* C1: partition coverage.  For every group of n >= 1 contexts and every
\* concurrent_tasks >= 1, the slices submitted for the group are non-empty,
\* contiguous and in the original order (at any time their concatenation is
\* a prefix of the contexts of the group), and once the group is submitted
\* their concatenation is exactly the sequence of its contexts, in
\* ceil(n / blocksize) slices.
C1_PartitionCoverage ==
    \A j \in 1..Len(dstore.ctx_by_grp) :
        LET ctx == dstore.ctx_by_grp[j].ctx
            units == SelectUnits(smap.inputs, dstore.ctx_by_grp[j].grp_id)
        IN  (Len(ctx) >= 1 /\ dstore.oqparam.concurrent_tasks >= 1) =>
              /\ IsPrefix(Concat(UnitCtxs(units)), ctx)
              /\ \A k \in 1..Len(units) : units[k].ctx # <<>>
              /\ GroupSubmitted(j) =>
                    /\ Concat(UnitCtxs(units)) = ctx
                    /\ Len(units) = Ceil(Len(ctx), blocksize)

\* a group of three contexts was submitted as a slice of two and a slice of one
C1_Witness ==
    /\ pc = "L91"
    /\ \E j \in 1..Len(dstore.ctx_by_grp) :
          LET units == SelectUnits(smap.inputs, dstore.ctx_by_grp[j].grp_id)
          IN  /\ Len(dstore.ctx_by_grp[j].ctx) = 3
              /\ Len(units) = 2
              /\ units[1].weight = 2
              /\ units[2].weight = 1

----------------------------------------------------------------------------
(* Properties of the run of main() *)

Range(f) == {f[k] : k \in DOMAIN f}

AllCollected == \A u \in 1..Len(task) : task[u].state = "collected"

\* the units of a run with concurrent_tasks = 1: every non-empty group whole
RECURSIVE WholeUnits(_)
WholeUnits(grps) ==
    IF grps = <<>> THEN <<>>
    ELSE (IF Head(grps).ctx = <<>> THEN <<>>
          ELSE <<Input(Head(grps).ctx, dstore.cmakers[Head(grps).grp_id + 1], N)>>)
         \o WholeUnits(Tail(grps))

RECURSIVE ReduceAll(_, _)
ReduceAll(d, units) ==
    IF units = <<>> THEN d
    ELSE ReduceAll(AccumAdd(d, compute_mrd(Head(units))), Tail(units))

\* C2: partition invariance.  The array stored by a run that ends well, for
\* any concurrent_tasks >= 1 and any order of arrival of the results, is the
\* array obtained from one unit per group (concurrent_tasks = 1): the
\* partial arrays of the units of a group are added key by key, none lost
\* and none counted twice.
C2_PartitionInvariance ==
    pc = "done" =>
        LET ref == combine_mrds(ReduceAll(<<>>, WholeUnits(dstore.ctx_by_grp)), dstore.rlzs_by_g)
        IN  /\ ref.exc = ""
            /\ dstore.mrd[1] = ref.value

\* a run of two groups ended well after one group was split into two units
C2_Witness ==
    /\ pc = "done"
    /\ Len(dstore.ctx_by_grp) = 2
    /\ dstore.oqparam.concurrent_tasks >= 2
    /\ \E j \in 1..2 : Len(SelectUnits(smap.inputs, j - 1)) = 2

\* the sum over the submitted units of the matrix the kernel gives for g
ExpectedData(g, i) ==
    SumSeq([u \in 1..Len(smap.inputs) |->
              LET inp == smap.inputs[u]
              IN  IF g \in Range(inp.cmaker.gidx)
                  THEN calc_mean_rate_dist(inp.ctx, inp.N, inp.cmaker)[
                           CHOOSE k \in 1..Len(inp.cmaker.gidx) : inp.cmaker.gidx[k] = g].data[i]
                  ELSE 0])

ExpectedKeys == UNION {Range(smap.inputs[u].cmaker.gidx) : u \in 1..Len(smap.inputs)}

\* C7: barrier before combination.  Whatever the order in which the workers
\* finish, once main() is past smap.reduce() (and so whenever combine_mrds
\* was called) every submitted unit was computed and its result received,
\* the accumulator holds for every g the sum of the matrices of all the
\* units exactly once each, and the 'mrd' dataset exists only past that
\* point: zeros until the Combiner step writes what combine_mrds returned.
C7_Barrier ==
    /\ (pc \in {"L92", "L93", "done"} \/ out.exc # "uncalled") =>
          /\ AllCollected
          /\ Keys(acc) = ExpectedKeys
          /\ \A k \in 1..Len(acc) :
                /\ acc[k][2].shape = <<L1, L1, N>>
                /\ \A i \in Indices(<<L1, L1, N>>) : acc[k][2].data[i] = ExpectedData(acc[k][1], i)
    /\ dstore.mrd # <<>> =>
          /\ pc \in {"L93", "done", "failed"}
          /\ AllCollected
          /\ IF pc = "done" THEN dstore.mrd[1] = out.value
             ELSE dstore.mrd[1] = Zeros(<<L1, L1, N>>)

\* three units of two groups were all received and the array was stored
C7_Witness ==
    /\ pc = "done"
    /\ Len(task) >= 3
    /\ Len(dstore.ctx_by_grp) = 2
    /\ Len(acc) >= 2

\* C8: a failed unit aborts the run.  If the task of any submitted unit
\* failed, main() never gets past smap.reduce(): combine_mrds is not
\* called, no 'mrd' dataset is created, and if main() has ended it ended
\* with the failure of the worker.
C8_UnitFailureAborts ==
    (\E u \in 1..Len(task) : task[u].state = "failed") =>
        /\ pc \in {"L86", "L91", "failed"}
        /\ out.exc = "uncalled"
        /\ dstore.mrd = <<>>
        /\ pc = "failed" => err = "WorkerFailure"

\* main() ended with the failure of one unit after receiving another result
C8_Witness ==
    /\ pc = "failed"
    /\ err = "WorkerFailure"
    /\ \E u \in 1..Len(task) : task[u].state = "failed"
    /\ \E u \in 1..Len(task) : task[u].state = "collected"

\* C9: shape invariant.  In every run that ends well the stored array has
\* shape (L1, L1, N), whatever concurrent_tasks is, and the array
\* combine_mrds returned has the shape of every partial array.
C9_ShapeInvariant ==
    pc = "done" =>
        /\ dstore.mrd[1].shape = <<Levels(dstore.oqparam.imtls), Levels(dstore.oqparam.imtls), N>>
        /\ DOMAIN dstore.mrd[1].data = Indices(dstore.mrd[1].shape)
        /\ out.exc = ""
        /\ \A k \in 1..Len(acc) : acc[k][2].shape = out.value.shape
        /\ \A u \in 1..Len(smap.inputs) :
              \A k \in 1..Len(smap.inputs[u].cmaker.gidx) :
                  compute_mrd(smap.inputs[u])[k][2].shape = out.value.shape

\* a run with L1 = 2 and two sites ended well with more than one unit
C9_Witness ==
    /\ pc = "done"
    /\ dstore.mrd[1].shape = <<2, 2, 2>>
    /\ Len(smap.inputs) >= 2

\* C5 as claimed: when N exceeds 10 main() never gets past the assertion of
\* line 78 and nothing at all happens before it fails: no executor, no
\* unit submitted, no worker call, no dataset, no log record.
C5_NoSideEffectAtAll ==
    N > MaxSites =>
        /\ pc \in {"L71", "L75", "L78", "failed"}
        /\ pc = "failed" => err = "AssertionError"
        /\ ~smap.created /\ smap.inputs = <<>> /\ task = <<>>
        /\ ~dstore.swmr /\ dstore.mrd = <<>>
        /\ out.exc = "uncalled"
        /\ log = <<>>

\* C5: fail-fast on too many sites.  When N exceeds 10 main() never gets
\* past the assertion of line 78, where it fails with an AssertionError; no
\* executor is created, no unit is submitted, no worker is called, no
\* dataset is created, and the only log record that can precede the
\* failure is the warning of lines 75-77, emitted exactly when L1 > 24.
C5_FailFast ==
    N > MaxSites =>
        /\ pc \in {"L71", "L75", "L78", "failed"}
        /\ pc = "failed" => err = "AssertionError"
        /\ ~smap.created /\ smap.inputs = <<>> /\ task = <<>>
        /\ ~dstore.swmr /\ dstore.mrd = <<>>
        /\ out.exc = "uncalled"
        /\ log = IF pc \in {"L78", "failed"} /\ Levels(dstore.oqparam.imtls) > ManyLevels
                 THEN <<"warning">> ELSE <<>>

\* main() failed on eleven sites after warning about the number of levels
C5_Witness ==
    /\ N = MaxSites + 1
    /\ pc = "failed"
    /\ err = "AssertionError"
    /\ log = <<"warning">>

\* C6: no partial output on error.  Whenever main() has ended with an
\* error, the datastore holds no 'mrd' dataset.
C6_NoOutputOnError ==
    pc = "failed" => dstore.mrd = <<>>

----------------------------------------------------------------------------
(* Properties of combine_mrds *)

\* the arrays of the accumulator share one shape, and the table has a row
\* for every key and a weight for every realization of those rows
WellFormed(a, tbl) ==
    /\ \A k \in 1..Len(a) : a[k][2].shape = a[1][2].shape
    /\ \A k \in 1..Len(a) :
          /\ a[k][1] \in DOMAIN tbl.rlzs
          /\ Range(tbl.rlzs[a[k][1]]) \subseteq DOMAIN tbl.weight

\* sum over g in acc and r in rlzs[g] of weight(r) * acc[g], element by element
WeightedSum(a, tbl) ==
    [shape |-> a[1][2].shape,
     data |-> [i \in Indices(a[1][2].shape) |->
                 SumSeq([k \in 1..Len(a) |->
                           SumSeq([j \in 1..Len(tbl.rlzs[a[k][1]]) |->
                                     tbl.weight[tbl.rlzs[a[k][1]][j]] * a[k][2].data[i]])])]]

\* C3: combiner result.  For every non-empty accumulator of arrays of one
\* shape and every weight table covering its keys, combine_mrds returns
\* the array that is, element by element, the sum over every g of acc and
\* every realization r of rlzs[g] of weight(r) * acc[g]: it starts from
\* zeros and is not normalized, whatever the weights sum to.
C3_CombinerResult ==
    (pc = "returned" /\ acc # <<>> /\ WellFormed(acc, dstore.rlzs_by_g)) =>
        out = Returned(WeightedSum(acc, dstore.rlzs_by_g))

\* two arrays were combined with weights 2 and 1, both applied to one key
C3_Witness ==
    /\ pc = "returned"
    /\ Len(acc) = 2
    /\ WellFormed(acc, dstore.rlzs_by_g)
    /\ acc[1][2].shape = <<2, 2, 1>>
    /\ dstore.rlzs_by_g.rlzs[acc[1][1]] = <<0, 1>>
    /\ dstore.rlzs_by_g.weight = [r \in 0..1 |-> 2 - r]
    /\ out.exc = ""

\* C4: missing sub-model index.  If the accumulator lacks a key that the
\* gidx of the binding of a dispatched unit declares, combine_mrds raises
\* instead of returning an array.
C4_MissingIndexRaises ==
    (/\ pc = "returned"
     /\ \E u \in 1..Len(smap.inputs) : ~(Range(smap.inputs[u].cmaker.gidx) \subseteq Keys(acc)))
        => out.exc # ""

\* the table with every weight multiplied by c
ScaleWeights(tbl, c) == [tbl EXCEPT !.weight = [r \in DOMAIN tbl.weight |-> c * tbl.weight[r]]]

\* C10: weight linearity.  For any accumulator and weight table for which
\* combine_mrds returns an array, with every weight multiplied by a constant
\* c it returns that array with every element multiplied by c (and it
\* raises with the scaled table exactly when it raises with the table).
C10_WeightLinearity ==
    pc = "returned" =>
        \A c \in 0..MaxScale :
            LET r == combine_mrds(acc, ScaleWeights(dstore.rlzs_by_g, c))
            IN  /\ r.exc = out.exc
                /\ out.exc = "" => r.value = ArrScale(c, out.value)

\* combine_mrds returned an array that is not zero from positive weights
C10_Witness ==
    /\ pc = "returned"
    /\ out.exc = ""
    /\ Len(acc) = 2
    /\ \A r \in DOMAIN dstore.rlzs_by_g.weight : dstore.rlzs_by_g.weight[r] > 0
    /\ \E i \in Indices(out.value.shape) : out.value.data[i] > 0

----------------------------------------------------------------------------
(* The block size of the partition (lines 81-90) *)

\* the units of the j-th group, in submission order
GroupUnits(j) == SelectUnits(smap.inputs, dstore.ctx_by_grp[j].grp_id)

\* the statement of C11 as written: every group is sliced with the ceiling
\* of its own size over concurrent_tasks
C11_PerGroupBlocksize ==
    \A j \in 1..Len(dstore.ctx_by_grp) :
        LET T == dstore.oqparam.concurrent_tasks
            nj == Len(dstore.ctx_by_grp[j].ctx)
        IN  T >= 1 =>
              \A k \in 1..Len(GroupUnits(j)) :
                  /\ GroupUnits(j)[k].weight * T < nj + T
                  /\ Len(GroupUnits(j)) <= T

\* C11 (amended): for concurrent_tasks T >= 1 there is one block size for
\* the whole run, the ceiling of the total number n of contexts of all the
\* groups over T (blocksize * T >= n > (blocksize - 1) * T); every slice of
\* every group has at most blocksize contexts and every group yields at most
\* T slices.
C11_GlobalBlocksize ==
    LET T == dstore.oqparam.concurrent_tasks
    IN  (T >= 1 /\ pc \in {"L84", "L86", "L91", "L92", "L93", "done"}) =>
          /\ n = SumSeq([j \in 1..Len(dstore.ctx_by_grp) |->
                            Len(dstore.ctx_by_grp[j].ctx)])
          /\ blocksize * T >= n
          /\ (blocksize - 1) * T < n
          /\ \A u \in 1..Len(smap.inputs) : smap.inputs[u].weight <= blocksize
          /\ \A j \in 1..Len(dstore.ctx_by_grp) : Len(GroupUnits(j)) <= T

\* two groups of three contexts with concurrent_tasks = 2: the block size is
\* 3 and each group went out as one slice of three contexts (more than the
\* ceiling of 3 / 2)
C11_Witness ==
    /\ pc = "L91"
    /\ dstore.oqparam.concurrent_tasks = 2
    /\ Len(dstore.ctx_by_grp) = 2
    /\ blocksize = 3
    /\ \A j \in 1..2 : Len(GroupUnits(j)) = 1 /\ GroupUnits(j)[1].weight = 3

\* C12: no cross-group recombination.  Every submitted unit holds contexts
\* of exactly one group, a contiguous run of the contexts of that group, and
\* its cmaker is the cmaker of that same group.
C12_NoCrossGroup ==
    \A u \in 1..Len(smap.inputs) :
        \E j \in 1..Len(dstore.ctx_by_grp) :
            LET grp == dstore.ctx_by_grp[j]
                inp == smap.inputs[u]
            IN  /\ inp.cmaker = dstore.cmakers[j]
                /\ inp.cmaker.grp_id = grp.grp_id
                /\ \E a \in 0..Len(grp.ctx), b \in 0..Len(grp.ctx) :
                      inp.ctx = SubSeq(grp.ctx, a + 1, b)
                /\ \A k \in 1..Len(inp.ctx) : inp.ctx[k][1] = grp.grp_id

\* units of two different groups were submitted, each with its own cmaker
C12_Witness ==
    /\ pc = "L91"
    /\ \E u, v \in 1..Len(smap.inputs) :
          /\ smap.inputs[u].cmaker.grp_id # smap.inputs[v].cmaker.grp_id
          /\ smap.inputs[u].cmaker.gidx # smap.inputs[v].cmaker.gidx
          /\ smap.inputs[u].ctx # <<>>
          /\ smap.inputs[v].ctx # <<>>

\* the statement of C13, whatever the exception is called: with
\* concurrent_tasks below 1 the run fails before any unit is submitted and
\* before the dataset 'mrd' is created
C13_InvalidTargetFailsEarly ==
    dstore.oqparam.concurrent_tasks < 1 =>
        /\ smap.inputs = <<>>
        /\ dstore.mrd = <<>>
        /\ pc # "done"

\* C20: empty group.  For concurrent_tasks >= 1 a group without contexts,
\* alone or among other groups, gets no slice and no unit is ever submitted
\* for it, and passing over it never fails the run: the loop goes on to the
\* next group and reaches the reduction.
C20_EmptyGroupNoUnits ==
    \A j \in 1..Len(dstore.ctx_by_grp) :
        (dstore.oqparam.concurrent_tasks >= 1 /\ dstore.ctx_by_grp[j].ctx = <<>>) =>
            /\ GroupUnits(j) = <<>>
            /\ \A u \in 1..Len(smap.inputs) : smap.inputs[u].ctx # <<>>
            /\ (pc = "L86" /\ gi = j) => slcs = <<>>
            /\ pc = "failed" => err \in {"AssertionError", "WorkerFailure", "StopIteration"}

\* the loop has passed an empty first group and submitted the contexts of
\* the second one
C20_Witness ==
    /\ pc = "L91"
    /\ Len(dstore.ctx_by_grp) = 2
    /\ dstore.ctx_by_grp[1].ctx = <<>>
    /\ GroupUnits(1) = <<>>
    /\ Len(GroupUnits(2)) = 2

----------------------------------------------------------------------------
(* Shapes and realizations in combine_mrds (lines 53-62) *)

\* the statement of C14, whatever the exception is called: combine_mrds never
\* returns an array when two arrays of the accumulator differ in shape
C14_ShapeMismatchRaises ==
    (/\ pc = "returned"
     /\ \E k \in 1..Len(acc) : acc[k][2].shape # acc[1][2].shape)
        => out.exc # ""

\* the table whose only non-zero weight is the weight 1 of realization r
OnlyWeight(tbl, r) ==
    [tbl EXCEPT !.weight = [q \in DOMAIN tbl.weight |-> IF q = r THEN 1 ELSE 0]]

\* how many times the loop of line 60 meets realization r in a row
Occurrences(r, row) == Cardinality({i \in 1..Len(row) : row[i] = r})

\* the positions in acc of the keys that belong to the j-th group
GroupKeys(j) == {k \in 1..Len(acc) : acc[k][1] \in Range(dstore.cmakers[j].gidx)}

----------------------------------------------------------------------------
(* The end-to-end scenario: main() on one group of 12 contexts with         *)
(* gidx = [0, 1] and concurrent_tasks = 4, the units computed by a stub;     *)
(* realization 0 (weight 0.6) uses g = 0 and realization 1 (weight 0.4)     *)
(* uses g = 1.  Weights are in tenths.                                       *)

ScenarioDatastores ==
    {[Datastore(sites, imtls, 4, <<12>>, <<2>>)
         EXCEPT !.rlzs_by_g.weight = [r \in 0..1 |-> IF r = 0 THEN 6 ELSE 4]] :
        sites \in {1, 2}, imtls \in FewLevels}

InitScenario ==
    /\ dstore \in ScenarioDatastores
    /\ pc = "L71"
    /\ L1 = 0
    /\ n = 0
    /\ blocksize = 0
    /\ log = <<>>
    /\ smap = [created |-> FALSE, inputs |-> <<>>]
    /\ gi = 0
    /\ slcs = <<>>
    /\ task = <<>>
    /\ acc = <<>>
    /\ out = [exc |-> "uncalled"]
    /\ err = ""
    /\ MonitorIdle

\* the array of the given shape with every element equal to v
Const(shape, v) == [shape |-> shape, data |-> [i \in Indices(shape) |-> v]]

\* the stub of compute_mrd: for every g of the gidx of the unit a constant
\* array, 1.0 for g = 0 and 2.0 for g = 1
stub_compute_mrd(inp) ==
    [k \in 1..Len(inp.cmaker.gidx) |->
        <<inp.cmaker.gidx[k],
          Const(<<Levels(inp.cmaker.imtls), Levels(inp.cmaker.imtls), inp.N>>,
                inp.cmaker.gidx[k] + 1)>>]

\* a worker runs the stub on unit u and sends the result back
StubWorkerReturns(u) ==
    /\ task[u].state = "submitted"
    /\ task' = [task EXCEPT ![u] = [state |-> "done", result |-> stub_compute_mrd(smap.inputs[u])]]

StubWorker ==
    /\ pc \in {"L86", "L91"}
    /\ \E u \in 1..Len(task) : StubWorkerReturns(u) \/ WorkerFails(u)
    /\ UNCHANGED <<dstore, pc, L1, n, blocksize, log, smap, gi, slcs, acc, out, err, monvars>>

NextScenario ==
    \/ ReadParams
    \/ WarnLevels
    \/ AssertSites
    \/ ReadContexts
    \/ ComputeBlocksize
    \/ StartStarmap
    \/ NextGroup
    \/ SubmitUnit
    \/ SubmitDone
    \/ StubWorker
    \/ ReduceResult
    \/ ReduceRaises
    \/ ReduceDone
    \/ CreateDset
    \/ CombineAndStore

SpecScenario == InitScenario /\ [][NextScenario]_vars

\* the weights of the submitted units, in submission order
UnitWeights == [u \in 1..Len(smap.inputs) |-> smap.inputs[u].weight]

\* the statement of C18 as written: the 12 contexts go out as 3 slices of 4
C18_ThreeSlicesOfFour ==
    GroupSubmitted(1) => UnitWeights = <<4, 4, 4>>

\* C18 (amended): in the scenario (one group of 12 contexts,
\* concurrent_tasks = 4) the block size is ceil(12 / 4) = 3 and the group is
\* submitted as exactly 4 slices of sizes 3, 3, 3, 3, which together are its
\* 12 contexts in order.
C18_FourSlicesOfThree ==
    GroupSubmitted(1) =>
        /\ blocksize = 3
        /\ UnitWeights = <<3, 3, 3, 3>>
        /\ Concat(UnitCtxs(smap.inputs)) = dstore.ctx_by_grp[1].ctx

\* the four slices of the scenario are submitted and the reduction has begun
C18_Witness ==
    /\ pc = "L91"
    /\ Len(dstore.ctx_by_grp[1].ctx) = 12
    /\ dstore.oqparam.concurrent_tasks = 4
    /\ Len(smap.inputs) = 4

\* the statement of C19 as written: the output is 1.4 (14 tenths) everywhere
C19_UniformWeightedMean ==
    pc = "done" => dstore.mrd = <<Const(<<L1, L1, N>>, 6 * 1 + 4 * 2)>>

\* C19 (amended): in the scenario with the stub units the constant arrays
\* of the 4 units are added key by key before the weights are applied, so
\* the output is uniformly 4 * (0.6 * 1.0 + 0.4 * 2.0) = 5.6 (56 tenths) in
\* every element.
C19_UniformSumOverUnits ==
    pc = "done" =>
        /\ Len(smap.inputs) = 4
        /\ dstore.mrd = <<Const(<<L1, L1, N>>, Len(smap.inputs) * (6 * 1 + 4 * 2))>>

\* the scenario has run to its end and the dataset 'mrd' is filled
C19_Witness ==
    /\ pc = "done"
    /\ Len(smap.inputs) = 4
    /\ Keys(acc) = {0, 1}
    /\ dstore.mrd # <<>>
    /\ \A i \in Indices(dstore.mrd[1].shape) : dstore.mrd[1].data[i] > 0

----------------------------------------------------------------------------
(* openquake/engine/celery_node_monitor.py: MasterKilled and the            *)
(* CeleryNodeMonitor context manager, with the main thread of the master    *)
(* process and the monitor thread.  The nodes that answer an inspect call   *)
(* are any set of nodes, chosen anew at every call.                         *)

\* MasterKilled.handle_signal(signum, _stack): the message of the exception
\* raised in the main thread
handle_signal(signum) ==
    IF signum = "SIGTERM"
    THEN "The openquake master process was killed manually"
    ELSE IF signum = "SIGABRT"
    THEN "The openquake master process was killed by the CeleryNodeMonitor because some node failed"
    ELSE "This should never happen"

\* the handlers are installed at every call
register_handlers_always(m) ==
    [m EXCEPT !.handlers = [s \in Signals |-> "handle_signal"],
              !.installs = [s \in Signals |-> @[s] + 1],
              !.registered_handlers = TRUE]

\* MasterKilled.register_handlers(): installs the handlers unless done before
register_handlers(m) ==
    IF ~m.registered_handlers
    THEN [m EXCEPT !.handlers = [s \in Signals |-> "handle_signal"],
                   !.installs = [s \in Signals |-> @[s] + 1],
                   !.registered_handlers = TRUE]
    ELSE m

\* a log record of logs.LOG.warn
Warn(msg, nodes) == [level |-> "warn", msg |-> msg, nodes |-> nodes]

\* stats[k]['pool']['max-concurrency'] of node k
MaxConcurrency(k) == k

\* sum(stats[k]['pool']['max-concurrency'] for k in stats)
RECURSIVE num_workers(_)
num_workers(stats) ==
    IF stats = {} THEN 0
    ELSE LET k == CHOOSE x \in stats : TRUE
         IN  MaxConcurrency(k) + num_workers(stats \ {k})

InitMonitor ==
    /\ dstore = Datastore(1, Imtls(2), 1, <<>>, <<>>)
    /\ pc = "L71"
    /\ L1 = 0
    /\ n = 0
    /\ blocksize = 0
    /\ log = <<>>
    /\ smap = [created |-> FALSE, inputs |-> <<>>]
    /\ gi = 0
    /\ slcs = <<>>
    /\ task = <<>>
    /\ acc = <<>>
    /\ out = [exc |-> "uncalled"]
    /\ err = ""
    /\ MonitorIdle

\* lines 85-92, CeleryNodeMonitor(no_distribute, interval, use_celery): the
\* first monitor of the process, or the next one after a block that ended
\* without exception
Construct(no_distribute, use_celery) ==
    /\ master.pc = "idle" \/ (master.pc = "exited" /\ master.exc = "")
    /\ master.monitors < MaxMonitors
    /\ monitor' = [no_distribute |-> no_distribute, use_celery |-> use_celery,
                   job_running |-> TRUE, live_nodes |-> <<>>, th |-> "None"]
    /\ master' = [register_handlers(master) EXCEPT !.pc = "constructed",
                                                   !.monitors = @ + 1]
    /\ thread' = NoThread
    /\ UNCHANGED <<celery, mrdvars>>

\* lines 60-69, MasterKilled.register_handlers() called by the process
\* itself, outside the block of a monitor
RegisterHandlers ==
    /\ master.pc \in {"idle", "exited"}
    /\ master' = register_handlers(master)
    /\ UNCHANGED <<monitor, thread, celery, mrdvars>>

\* lines 110-114 with set_concurrent_tasks_default (lines 95-105): the stats
\* of the nodes are asked; the process exits if no node answers, else the
\* default of concurrent_tasks is set, the live nodes are recorded and the
\* monitor thread is started
StartMonitoring(stats) ==
    /\ celery' = [celery EXCEPT !.stats = @ + 1]
    /\ IF stats = {}
       THEN /\ master' = [master EXCEPT !.pc = "exited", !.exc = "SystemExit"]
            /\ UNCHANGED <<monitor, thread>>
       ELSE /\ master' = [master EXCEPT !.pc = "body",
                             !.concurrent_tasks_default = 2 * num_workers(stats)]
            /\ monitor' = [monitor EXCEPT !.live_nodes = <<stats>>, !.th = "Thread"]
            /\ thread' = [NoThread EXCEPT !.pc = "job_is_running"]

\* __enter__ that does not look at no_distribute
EnterIgnoringNoDistribute(stats) ==
    /\ master.pc = "constructed"
    /\ IF monitor.use_celery
       THEN StartMonitoring(stats)
       ELSE /\ master' = [master EXCEPT !.pc = "body"]
            /\ UNCHANGED <<monitor, thread, celery>>
    /\ UNCHANGED mrdvars

\* lines 107-114, __enter__: nothing with no_distribute, the monitoring is
\* started with use_celery; stats is the set of the nodes that answer
Enter(stats) ==
    /\ master.pc = "constructed"
    /\ IF monitor.no_distribute
       THEN /\ master' = [master EXCEPT !.pc = "body"]
            /\ UNCHANGED <<monitor, thread, celery>>
       ELSE IF monitor.use_celery
       THEN StartMonitoring(stats)
       ELSE /\ master' = [master EXCEPT !.pc = "body"]
            /\ UNCHANGED <<monitor, thread, celery>>
    /\ UNCHANGED mrdvars

\* a signal sent to the master process from outside while the block of the
\* with statement runs: handle_signal (lines 43-58) raises MasterKilled in
\* the main thread
ReceiveSignal(signum) ==
    /\ master.pc = "body"
    /\ master.exc = ""
    /\ master.handlers[signum] = "handle_signal"
    /\ master' = [master EXCEPT !.exc = handle_signal(signum),
                                !.signals = Append(@, signum)]
    /\ UNCHANGED <<monitor, thread, celery, mrdvars>>

\* lines 116-119, __exit__ up to join(): the block has ended, normally or
\* by an exception
Exit ==
    /\ master.pc = "body"
    /\ monitor' = [monitor EXCEPT !.job_running = FALSE]
    /\ master' = [master EXCEPT !.pc = IF monitor.th # "None" THEN "join" ELSE "exited"]
    /\ UNCHANGED <<thread, celery, mrdvars>>

\* line 119: self.th.join() returns when the monitor thread has ended
Join ==
    /\ master.pc = "join"
    /\ thread.pc = "finished"
    /\ master' = [master EXCEPT !.pc = "exited"]
    /\ UNCHANGED <<monitor, thread, celery, mrdvars>>

\* lines 154-157, job_is_running: the flag is set, sleep a tenth of the interval
ThSleep ==
    /\ thread.pc = "job_is_running"
    /\ thread.i < Checks
    /\ monitor.job_running
    /\ thread' = [thread EXCEPT !.i = @ + 1]
    /\ UNCHANGED <<monitor, master, celery, mrdvars>>

\* job_is_running answers True whatever the flag is
ThReturnTrue ==
    /\ thread.pc = "job_is_running"
    /\ thread.i = Checks \/ ~monitor.job_running
    /\ celery.pings < MaxPolls
    /\ thread' = [thread EXCEPT !.pc = "ping"]
    /\ UNCHANGED <<monitor, master, celery, mrdvars>>

\* lines 155-158 and 139: the loop of job_is_running ends (break, or ten
\* sleeps done) and returns self.job_running, which decides the while loop
\* of check_nodes; the frame of the thread is gone when check_nodes returns
ThReturn ==
    /\ thread.pc = "job_is_running"
    /\ thread.i = Checks \/ ~monitor.job_running
    /\ monitor.job_running => celery.pings < MaxPolls
    /\ thread' = IF monitor.job_running
                 THEN [thread EXCEPT !.pc = "ping"]
                 ELSE [NoThread EXCEPT !.pc = "finished"]
    /\ UNCHANGED <<monitor, master, celery, mrdvars>>

\* lines 140-147 with ping (lines 122-132): answer is the set of the nodes
\* that answer, taken as empty when the ping raises (a warning is logged);
\* the warnings about the dead nodes are logged when the answer is a proper
\* subset of the recorded live nodes
ThPoll(answer, raises) ==
    /\ thread.pc = "ping"
    /\ LET live_nodes == IF raises THEN {} ELSE answer
           log0 == IF raises THEN Append(master.log, Warn("ping", {})) ELSE master.log
           self_live == monitor.live_nodes[1]
       IN  /\ thread' = [thread EXCEPT !.pc = "job_is_running", !.i = 0,
                                       !.live_nodes = <<live_nodes>>]
           /\ master' = [master EXCEPT !.log =
                 IF live_nodes \subseteq self_live /\ live_nodes # self_live
                 THEN log0 \o <<Warn("Workers not accessible", self_live \ live_nodes),
                                Warn("If celery died, please stop the calculation", {})>>
                 ELSE log0]
    /\ celery' = [celery EXCEPT !.pings = @ + 1]
    /\ UNCHANGED <<monitor, mrdvars>>

NextMonitor ==
    \/ \E no_distribute \in BOOLEAN, use_celery \in BOOLEAN :
          Construct(no_distribute, use_celery)
    \/ RegisterHandlers
    \/ \E stats \in SUBSET Nodes : Enter(stats)
    \/ \E signum \in Signals : ReceiveSignal(signum)
    \/ Exit
    \/ Join
    \/ ThSleep
    \/ ThReturn
    \/ \E answer \in SUBSET Nodes, raises \in BOOLEAN : ThPoll(answer, raises)

SpecMonitor == InitMonitor /\ [][NextMonitor]_vars

\* the monitor thread is scheduled: a sleep of interval / 10 ends, a ping
\* ends within its timeout, and join() returns once the thread has ended;
\* the block of the with statement may run for ever
SpecMonitorFair ==
    /\ InitMonitor
    /\ [][NextMonitor]_vars
    /\ WF_vars(ThSleep)
    /\ WF_vars(ThReturn)
    /\ WF_vars(\E answer \in SUBSET Nodes, raises \in BOOLEAN : ThPoll(answer, raises))
    /\ WF_vars(Join)

----------------------------------------------------------------------------
(* Properties of the CeleryNodeMonitor *)

\* the statement of C16: when the last ping of an active monitor was not
\* answered by some node of the recorded live nodes, a SIGABRT has been
\* sent to the master process
C16_DeadNodeAborts ==
    (/\ monitor.use_celery
     /\ ~monitor.no_distribute
     /\ thread.pc = "job_is_running"
     /\ thread.live_nodes # <<>>
     /\ \E k \in monitor.live_nodes[1] : k \notin thread.live_nodes[1])
        => \E j \in 1..Len(master.signals) : master.signals[j] = "SIGABRT"

\* the process without the position of the main thread and the count of the
\* monitors constructed
Process(m) == [m EXCEPT !.pc = "", !.monitors = 0]

----------------------------------------------------------------------------
(* Site count, unit results and dispatch (lines 35-50, 73-93) *)

\* the statement of C21, whatever the exception is called: with a site
\* count N <= 0 the run fails before any unit is submitted, and never stores
\* an array
C21_NoSitesFailsEarly ==
    N <= 0 =>
        /\ smap.inputs = <<>>
        /\ dstore.mrd = <<>>
        /\ pc # "done"

\* the statement of C22, whatever the exception is called: a unit result
\* whose key set is not exactly the gidx of the unit's binding is rejected,
\* so combine_mrds never returns an array built from it
C22_KeySetEnforced ==
    (/\ pc = "returned"
     /\ \E u \in 1..Len(smap.inputs) : Keys(acc) # Range(smap.inputs[u].cmaker.gidx))
        => out.exc # ""

----------------------------------------------------------------------------
(* Dispatch of the units (lines 85-91) *)

\* the units that carry the record rec
UnitsWith(inputs, rec) == {u \in 1..Len(inputs) : rec \in Range(inputs[u].ctx)}

\* every slice of the j-th group went out as one unit, in order
SlicesDispatched(j) ==
    LET ctx == dstore.ctx_by_grp[j].ctx
        slices == gen_slices(0, Len(ctx), blocksize)
    IN  /\ Len(GroupUnits(j)) = Len(slices)
        /\ \A k \in 1..Len(slices) : GroupUnits(j)[k].ctx = Slice(ctx, slices[k])

\* a task state is never followed by an earlier one
StateRank(state) ==
    CASE state = "submitted" -> 0
      [] state \in {"done", "failed"} -> 1
      [] OTHER -> 2

\* one step of the run submits at most one unit, a new one, and leaves the
\* units and the tasks already there as they are or further on
DispatchStep ==
    /\ IsPrefix(smap.inputs, smap'.inputs)
    /\ Len(smap'.inputs) <= Len(smap.inputs) + 1
    /\ Len(task') = Len(smap'.inputs)
    /\ \A u \in 1..Len(task) : StateRank(task'[u].state) >= StateRank(task[u].state)
    /\ \A u \in 1..Len(smap'.inputs) :
          u > Len(smap.inputs) =>
              /\ task'[u].state = "submitted"
              /\ \A v \in 1..Len(smap.inputs) :
                    Range(smap'.inputs[u].ctx) \cap Range(smap.inputs[v].ctx) = {}

\* C23: exactly-once dispatch without retry.  In every run each slice of each
\* group is submitted exactly once as one unit (a record is never in two
\* units, and a group that was gone through has one unit per slice), one
\* task per unit; no step submits a unit again or sets a task back to
\* "submitted", neither after the task failed nor after it succeeded.
C23_ExactlyOnceDispatch ==
    /\ [](/\ Len(task) = Len(smap.inputs)
          /\ \A j \in 1..Len(dstore.ctx_by_grp) :
                /\ \A k \in 1..Len(dstore.ctx_by_grp[j].ctx) :
                      Cardinality(UnitsWith(smap.inputs, dstore.ctx_by_grp[j].ctx[k])) <= 1
                /\ (GroupSubmitted(j) /\ dstore.oqparam.concurrent_tasks >= 1) =>
                      /\ SlicesDispatched(j)
                      /\ \A k \in 1..Len(dstore.ctx_by_grp[j].ctx) :
                            Cardinality(UnitsWith(smap.inputs, dstore.ctx_by_grp[j].ctx[k])) = 1)
    /\ [][DispatchStep]_vars

\* main() raised the failure of a task: the run ended with the three units
\* of its two groups submitted once each, one failed and one computed
C23_Witness ==
    /\ pc = "failed"
    /\ err = "WorkerFailure"
    /\ Len(smap.inputs) = 3
    /\ \E u, v \in 1..Len(task) : task[u].state = "failed" /\ task[v].state = "done"

----------------------------------------------------------------------------
(* The warning about the number of levels (lines 74-78) *)

TotalContexts ==
    SumSeq([j \in 1..Len(dstore.ctx_by_grp) |-> Len(dstore.ctx_by_grp[j].ctx)])

\* C24: the warning about many levels is not fatal.  With L1 > 24 and
\* N <= 10, once main() is past lines 75-77 the first log record is the
\* warning and the rest of the log is that of a run without it; main() goes
\* on through the submission, the combination and the storage: an ended run
\* with concurrent_tasks >= 1 and at least one context failed only if the
\* task of a unit failed, never at lines 75-78, and a run that ended well
\* stored what the inputs alone determine, the array of a run of one unit
\* per group.
C24_WarningNonFatal ==
    (Levels(dstore.oqparam.imtls) > ManyLevels /\ N <= MaxSites) =>
        /\ pc \notin {"L71", "L75"} =>
              /\ log # <<>>
              /\ log[1] = "warning"
              /\ Tail(log) = IF pc \in {"L78", "L79"} THEN <<>> ELSE <<"info">>
        /\ pc = "failed" =>
              /\ err \notin {"AssertionError", "UserWarning"}
              /\ smap.created \/ dstore.oqparam.concurrent_tasks = 0
              /\ (dstore.oqparam.concurrent_tasks >= 1 /\ TotalContexts >= 1) =>
                    /\ err = "WorkerFailure"
                    /\ \E u \in 1..Len(task) : task[u].state = "failed"
        /\ pc = "done" =>
              LET ref == combine_mrds(ReduceAll(<<>>, WholeUnits(dstore.ctx_by_grp)),
                                      dstore.rlzs_by_g)
              IN  /\ ref.exc = ""
                  /\ dstore.mrd[1].shape = <<ManyLevels + 1, ManyLevels + 1, N>>
                  /\ dstore.mrd[1] = ref.value

\* a run with 25 levels and one site warned, went on and stored its array
C24_Witness ==
    /\ Levels(dstore.oqparam.imtls) = ManyLevels + 1
    /\ N = 1
    /\ pc = "done"
    /\ log = <<"warning", "info">>
    /\ Len(smap.inputs) = 1
    /\ dstore.mrd[1].shape = <<ManyLevels + 1, ManyLevels + 1, 1>>

----------------------------------------------------------------------------
(* Size and number of the units (lines 81-90) *)

\* C27: global bound of the block size.  For concurrent_tasks T >= 1, once
\* line 83 is passed the block size is the least b with b * T >= n_total,
\* n_total being the number of contexts of all the groups together; it is
\* at least 1 when there is a context, and it is the block size of every
\* group: a unit carries between 1 and blocksize contexts (its weight),
\* whatever the size of its group, and in a group gone through every unit
\* but the last carries exactly blocksize contexts.
C27_GlobalBlockBound ==
    LET T == dstore.oqparam.concurrent_tasks
    IN  (T >= 1 /\ pc \in {"L84", "L86", "L91", "L92", "L93", "done"}) =>
          /\ blocksize = CHOOSE b \in 0..TotalContexts :
                            b * T >= TotalContexts /\ (b - 1) * T < TotalContexts
          /\ TotalContexts >= 1 => blocksize >= 1
          /\ \A u \in 1..Len(smap.inputs) :
                /\ smap.inputs[u].weight = Len(smap.inputs[u].ctx)
                /\ smap.inputs[u].weight \in 1..blocksize
          /\ \A j \in 1..Len(dstore.ctx_by_grp) :
                GroupSubmitted(j) =>
                    \A k \in 1..Len(GroupUnits(j)) - 1 : GroupUnits(j)[k].weight = blocksize

\* two groups of two contexts with concurrent_tasks = 2: the block size is
\* 2 and each group went out whole, though half of it is one context
C27_Witness ==
    /\ pc = "L91"
    /\ dstore.oqparam.concurrent_tasks = 2
    /\ Len(dstore.ctx_by_grp) = 2
    /\ blocksize = 2
    /\ \A j \in 1..2 :
          /\ Len(dstore.ctx_by_grp[j].ctx) = 2
          /\ Len(GroupUnits(j)) = 1
          /\ GroupUnits(j)[1].weight = 2

\* the groups that hold at least one context
NonEmptyGroups == {j \in 1..Len(dstore.ctx_by_grp) : dstore.ctx_by_grp[j].ctx # <<>>}

\* C28: bound on the number of units.  For concurrent_tasks T >= 1 and G
\* non-empty groups, the units ever submitted are at most T + G - 1 (G = 0:
\* none), and when the loop of line 86 is over they are at least G, one or
\* more for every non-empty group.
C28_UnitCountBound ==
    LET T == dstore.oqparam.concurrent_tasks
        G == Cardinality(NonEmptyGroups)
    IN  T >= 1 =>
          /\ Len(smap.inputs) <= IF G = 0 THEN 0 ELSE T + G - 1
          /\ pc \in {"L91", "L92", "L93", "done"} =>
                /\ Len(smap.inputs) >= G
                /\ \A j \in NonEmptyGroups : Len(GroupUnits(j)) >= 1

\* groups of three contexts and of one with concurrent_tasks = 2: three
\* units, one more than concurrent_tasks
C28_Witness ==
    /\ pc = "L91"
    /\ dstore.oqparam.concurrent_tasks = 2
    /\ Cardinality(NonEmptyGroups) = 2
    /\ TotalContexts = 4
    /\ Len(smap.inputs) = 3

----------------------------------------------------------------------------
(* The empty accumulator (lines 53-57, 91-93) *)

\* C29: empty set of results.  The accumulator that smap.reduce() returned
\* is empty exactly when no unit was submitted (no group, or no context in
\* any group); the dataset 'mrd' is then created all the same, and
\* combine_mrds, called on the empty accumulator, returns no array: it
\* raises StopIteration on its first key, so that main() ends with that
\* error and the dataset of zeros of shape (L1, L1, N) in the store, and
\* never ends well.
C29_EmptyAccumulatorFails ==
    /\ pc \in {"L92", "L93", "done"} => (acc = <<>> <=> smap.inputs = <<>>)
    /\ (acc = <<>> /\ pc = "L93") => dstore.mrd = <<Zeros(<<L1, L1, N>>)>>
    /\ (acc = <<>> /\ out.exc # "uncalled") =>
          /\ out = Raised("StopIteration")
          /\ pc = "failed"
          /\ err = "StopIteration"
          /\ dstore.mrd = <<Zeros(<<L1, L1, N>>)>>
    /\ pc = "done" => acc # <<>>

\* two groups without contexts and concurrent_tasks = 1: combine_mrds was
\* called on the empty accumulator and main() failed with the dataset created
C29_Witness ==
    /\ pc = "failed"
    /\ err = "StopIteration"
    /\ acc = <<>>
    /\ Len(dstore.ctx_by_grp) = 2
    /\ dstore.oqparam.concurrent_tasks = 1
    /\ dstore.mrd # <<>>

----------------------------------------------------------------------------
(* Registration of the signal handlers (lines 60-69, 85-92) *)

\* C26: the signal handlers are registered once.  Whatever the number of
\* monitors constructed and of calls of register_handlers, signal.signal was
\* called once for SIGTERM and once for SIGABRT when registered_handlers is
\* set and never before; a process that constructed a monitor has the flag
\* set; and once the flag is set no step changes the handlers, the flag or
\* the number of installations.
C26_RegisteredOnce ==
    /\ [](/\ \A s \in Signals :
                /\ master.installs[s] = IF master.registered_handlers THEN 1 ELSE 0
                /\ master.handlers[s] =
                      IF master.registered_handlers THEN "handle_signal" ELSE "SIG_DFL"
          /\ master.monitors >= 1 => master.registered_handlers)
    /\ [][master.registered_handlers =>
             /\ master'.registered_handlers
             /\ master'.handlers = master.handlers
             /\ master'.installs = master.installs]_vars

\* the second monitor of the process was constructed: each handler was
\* still installed once
C26_Witness ==
    /\ master.monitors = 2
    /\ master.pc = "constructed"
    /\ master.registered_handlers
    /\ \A s \in Signals : master.installs[s] = 1 /\ master.handlers[s] = "handle_signal"

----------------------------------------------------------------------------
(* The polls of the monitor thread (lines 116-158) *)

\* the statement of C30: after every poll of check_nodes that some node of
\* the recorded live nodes did not answer, the warning that lists the
\* missing nodes is in the log, whatever other node answered
C30_DeadNodeReported ==
    (/\ thread.pc = "job_is_running"
     /\ thread.live_nodes # <<>>
     /\ monitor.live_nodes[1] \ thread.live_nodes[1] # {})
        => \E j \in 1..Len(master.log) :
              master.log[j] = Warn("Workers not accessible",
                                   monitor.live_nodes[1] \ thread.live_nodes[1])

\* C25: shutdown of the monitor thread.  job_is_running sleeps at most ten
\* times for a poll and, once job_running is False, its next step leaves
\* the loop and ends check_nodes; so after __exit__ has set the flag the
\* monitor thread ends and join() returns, under every interleaving of the
\* two threads; __exit__ has returned only when the thread has ended, and
\* no ping is made while the process is past __exit__.
C25_MonitorShutdown ==
    /\ [](thread.i <= Checks)
    /\ []((master.pc = "exited" /\ monitor.th = "Thread") => thread.pc = "finished")
    /\ [][(thread.pc = "job_is_running" /\ ~monitor.job_running /\ thread' # thread)
             => thread'.pc = "finished"]_vars
    /\ [][master.pc = "exited" => celery'.pings = celery.pings]_vars
    /\ ((~monitor.job_running /\ monitor.th = "Thread") ~> thread.pc = "finished")
    /\ (master.pc = "join" ~> master.pc = "exited")

\* __exit__ has returned from join() after a poll: the thread has ended
C25_Witness ==
    /\ master.pc = "exited"
    /\ monitor.th = "Thread"
    /\ ~monitor.job_running
    /\ thread.pc = "finished"
    /\ celery.pings >= 1

====
